---- MODULE Spec2Model ----
(***************************************************************************)
(* Conversation orchestration of AIGroupChatGUI (src/chatgroup.py): the    *)
(* message queue and its consumer thread, the Tk event loop (the UI        *)
(* thread, which runs the handlers and the callbacks posted with           *)
(* root.after), and the round threads running trigger_ai_responses.        *)
(*                                                                         *)
(* Message contents are kept by what the code tests of them: a leading     *)
(* "@name " token (the mention field of an input), the "机器人 " prefix of  *)
(* a persona seed message (kind = "prompt"), and the kind of a notice.     *)
(***************************************************************************)
EXTENDS Integers, Sequences, FiniteSets, TLC

\* ---------------------------------------------------------------- bounds
MaxRounds == 3      \* round threads created in one behaviour of Spec
MaxHuman == 1       \* human messages sent in one behaviour of Spec
MaxTurnsCap == 2    \* largest max_ai_conversation_turns found in the config file
MaxRoundsRace == 4  \* round threads created in one behaviour of SpecRace
MaxHumanRace == 2   \* human messages sent in one behaviour of SpecRace
MaxLen == 6         \* longest text given to parse_mention in SpecParse
MaxHist == 3        \* longest history a view is built from in SpecView
MaxBuilds == 2      \* views built in one behaviour of SpecView
MaxBody == 4        \* longest text after the name prefix of a reply in SpecReply
MaxDialogs == 2     \* message boxes shown in one behaviour of SpecSettings / SpecRegistry
MaxRoundsSettings == 1  \* round threads created in one behaviour of SpecSettings
MaxRoundsAllow == 2     \* round threads created in one behaviour of SpecAllow
MaxSubmitted == 8       \* messages whose way into the history is followed in SpecLive

\* ---------------------------------------------------------------- names
NoTarget == "none"          \* Message.target = None
SystemName == "System"      \* the sender name of system notices
UserName == "User"          \* config "user_name"
RobotNames == {"Ann", "Bob"}
UnknownName == "Zed"        \* a name no robot has
NewName == "Cy"             \* a name no robot has at start-up
NoRobot == "none"           \* open_robot_editor: robot_config is None
RobotMarker == "Robot"      \* the word that opens a persona seed message

VARIABLES
    active_robots,          \* self.active_robots: the names, in dict order
    robot_config,           \* self.active_robots[name]: the RobotConfig flags
    chat_history,           \* self.chat_history
    message_queue,          \* self.message_queue
    after_queue,            \* callbacks posted with root.after(0, ...), FIFO
    consumer_msg,           \* process_messages: the msg taken, not yet examined
    ai_conversation_turns,  \* self.ai_conversation_turns
    infinite_loop,          \* self.infinite_loop
    ai_processing,          \* self.ai_processing
    max_turns_cfg,          \* config "max_ai_conversation_turns"
    allow_ai_conversations, \* config "allow_ai_conversations"
    ai_client,              \* self.ai_client is not None
    rounds,                 \* the trigger_ai_responses threads, by creation
    sends,                  \* human messages sent so far
    content,                \* parse_mention: the text it is called with
    parsed,                 \* parse_mention: what it returned
    built,                  \* the robot_specific_history lists built on request
    user_name_var,          \* self.user_name_var: the text of the name field
    main_config,            \* config_manager.main_config, the other settings
    robot_dir,              \* the robot files of ROBOT_DIR, by file stem
    dialog,                 \* the last message box of a configuration handler
    dialogs                 \* the number of those boxes shown so far

vars == <<active_robots, robot_config, chat_history, message_queue, after_queue,
          consumer_msg, ai_conversation_turns, infinite_loop, ai_processing,
          max_turns_cfg, allow_ai_conversations, ai_client, rounds, sends,
          content, parsed, built, user_name_var, main_config, robot_dir, dialog,
          dialogs>>

\* ---------------------------------------------------------------- messages
\* Message(role, content, name, target); rid is the round that produced the
\* message (0: none), about the robot a system message is written for.
Message(role, kind, name, target, about, rid) ==
    [role |-> role, kind |-> kind, name |-> name, target |-> target,
     about |-> about, rid |-> rid]

NoMsg == Message("none", "none", "none", NoTarget, "none", 0)

\* content.startswith("机器人 "): the persona seed written at load time
\* ("机器人 <name> 的提示词: ..."), and the failure notice ("<name> 响应失败: ...")
\* of a robot whose name is that very word.
StartsWithRobotMarker(m) ==
    \/ m.kind = "prompt"
    \/ m.kind = "fail" /\ m.about = RobotMarker

\* RobotConfig: prompt (non-empty or not), auto_respond_to_ai, auto_respond_to_all
RobotConfig(prompt, ai, all) ==
    [prompt |-> prompt, auto_respond_to_ai |-> ai, auto_respond_to_all |-> all]

\* The robot files found at start-up (all enabled).
Registries ==
    { [Ann |-> RobotConfig(TRUE, TRUE, TRUE),  Bob |-> RobotConfig(FALSE, TRUE, TRUE)],
      [Ann |-> RobotConfig(FALSE, TRUE, TRUE), Bob |-> RobotConfig(FALSE, FALSE, FALSE)],
      [Ann |-> RobotConfig(FALSE, FALSE, TRUE), Bob |-> RobotConfig(TRUE, TRUE, FALSE)] }

\* A robot file of ROBOT_DIR: the name written into it, the flags, enabled.
RobotFile(name, cfg, enabled) == [name |-> name, cfg |-> cfg, enabled |-> enabled]

\* The text of an entry field that int() is applied to.
IntText(v) == [is_int |-> TRUE, val |-> v]
NotInt == [is_int |-> FALSE, val |-> 0]

\* ConfigManager.default_main_config, without the two settings that have a
\* variable of their own.
default_main_config ==
    [api_key |-> "", base_url |-> "url", model |-> "gpt", timeout |-> 30,
     proxy |-> "", default_robots |-> <<>>, user_name |-> UserName]

\* No message box was shown. by: the handler, box: which of its boxes,
\* arg: what the handler was given.
NoDialog == [by |-> "none", box |-> "none", arg |-> <<>>]

\* ---------------------------------------------------------------- helpers
RECURSIVE SeedMessages(_, _)
\* load_all_robots_on_start, second loop: per active robot its persona message
\* (when it has a prompt) and the roster message.
SeedMessages(names, cfg) ==
    IF names = <<>> THEN <<>>
    ELSE LET n == Head(names)
             roster == Message("system", "roster", SystemName, NoTarget, n, 0)
             persona == Message("system", "prompt", SystemName, NoTarget, n, 0)
         IN  (IF cfg[n].prompt THEN <<persona, roster>> ELSE <<roster>>)
             \o SeedMessages(Tail(names), cfg)

SeqToSet(s) == { s[i] : i \in 1..Len(s) }

\* parse_mention without the test of the name against the active robots.
parse_mention_any_name(mention, active) == mention

\* parse_mention on an input whose leading token is "@mention " (mention =
\* NoTarget: no leading token): the target when it names an active robot.
parse_mention(mention, active) ==
    IF mention # NoTarget /\ mention \in SeqToSet(active) THEN mention ELSE NoTarget

\* Responds with either policy flag sufficing for a public agent-authored
\* trigger.
RespondsEitherFlag(robot_name, cfg, last_message, is_ai_message) ==
    /\ robot_name # last_message.name
    /\ ~(last_message.target # NoTarget /\ last_message.target # robot_name)
    /\ IF is_ai_message /\ last_message.target = NoTarget
       THEN cfg[robot_name].auto_respond_to_ai \/ cfg[robot_name].auto_respond_to_all
       ELSE /\ ~(is_ai_message /\ ~cfg[robot_name].auto_respond_to_ai)
            /\ ~(last_message.target = NoTarget /\ ~cfg[robot_name].auto_respond_to_all)

\* Responds without the test of the robot against the sender of the message.
RespondsIncludingSender(robot_name, cfg, last_message, is_ai_message) ==
    /\ ~(last_message.target # NoTarget /\ last_message.target # robot_name)
    /\ ~(is_ai_message /\ ~cfg[robot_name].auto_respond_to_ai)
    /\ ~(last_message.target = NoTarget /\ ~cfg[robot_name].auto_respond_to_all)

\* trigger_ai_responses, lines 768-778: the responders, in dict order.
Responds(robot_name, cfg, last_message, is_ai_message) ==
    /\ robot_name # last_message.name
    /\ ~(last_message.target # NoTarget /\ last_message.target # robot_name)
    /\ ~(is_ai_message /\ ~cfg[robot_name].auto_respond_to_ai)
    /\ ~(last_message.target = NoTarget /\ ~cfg[robot_name].auto_respond_to_all)

RECURSIVE Reverse(_)
Reverse(s) == IF s = <<>> THEN <<>> ELSE Append(Reverse(Tail(s)), Head(s))

\* responding_robots with the responders taken from the last robot to the first.
responding_robots_reversed(active, cfg, last_message, is_ai_message) ==
    LET Keep(n) == Responds(n, cfg, last_message, is_ai_message)
    IN  Reverse(SelectSeq(active, Keep))

responding_robots(active, cfg, last_message, is_ai_message) ==
    LET Keep(n) == Responds(n, cfg, last_message, is_ai_message)
    IN  SelectSeq(active, Keep)

\* Visible without the branch on msg.name == robot_name.
VisibleNotOwn(msg, robot_name) ==
    IF msg.role = "system" THEN ~StartsWithRobotMarker(msg)
    ELSE \/ msg.target = NoTarget
         \/ msg.target = robot_name

\* Visible with the branch on msg.target == robot_name taken for any target.
VisibleAnyTarget(msg, robot_name) ==
    IF msg.role = "system" THEN ~StartsWithRobotMarker(msg) ELSE TRUE

\* trigger_ai_responses, lines 829-839: the filter of the history for a robot.
Visible(msg, robot_name) ==
    IF msg.role = "system" THEN ~StartsWithRobotMarker(msg)
    ELSE \/ msg.target = NoTarget
         \/ msg.target = robot_name
         \/ msg.name = robot_name

\* robot_specific_history that leaves the history out once a list was built.
robot_specific_history_once(history, robot_name, active, cfg) ==
    LET See(m) == Visible(m, robot_name)
    IN  [lead |-> [robot |-> robot_name, prompt |-> cfg[robot_name].prompt,
                   roster |-> active],
         msgs |-> IF built = <<>> THEN SelectSeq(history, See) ELSE <<>>]

\* trigger_ai_responses, lines 795-839: robot_specific_history, as the leading
\* system message (name, prompt, roster read from the live registry) and the rest.
robot_specific_history(history, robot_name, active, cfg) ==
    LET See(m) == Visible(m, robot_name)
    IN  [lead |-> [robot |-> robot_name, prompt |-> cfg[robot_name].prompt,
                   roster |-> active],
         msgs |-> SelectSeq(history, See)]

NoView == [lead |-> [robot |-> "none", prompt |-> FALSE, roster |-> <<>>],
           msgs |-> <<>>]

\* A round thread. pc: "start" (thread created), "incr" (the counter read by
\* line 762, not yet written back), "loop" (at the head of the responder
\* loop), "call" (request built, completion call in flight), "done".
\* turns_read is the value line 762 loaded.
Round(msg, is_ai) ==
    [pc |-> "start", last_message |-> msg, is_ai_message |-> is_ai,
     max_turns |-> 0, turns_read |-> 0, responding |-> <<>>, i |-> 1,
     view |-> NoView, invoked |-> 0, broke |-> FALSE]

\* parse_mention has not been called.
NoParse == [content |-> <<>>, target |-> <<"?">>]

\* ---------------------------------------------------------------- Init
\* The state after __init__: the robots loaded, the seed messages written,
\* the settings as the config file holds them.
Init ==
    /\ active_robots = <<"Ann", "Bob">>
    /\ robot_config \in Registries
    /\ chat_history = SeedMessages(active_robots, robot_config)
    /\ message_queue = <<>>
    /\ after_queue = <<>>
    /\ consumer_msg = NoMsg
    /\ ai_conversation_turns = 0
    /\ infinite_loop = FALSE
    /\ ai_processing = FALSE
    /\ max_turns_cfg \in 1..MaxTurnsCap
    /\ allow_ai_conversations \in BOOLEAN
    /\ ai_client \in BOOLEAN
    /\ rounds = <<>>
    /\ sends = 0
    /\ content = <<>>
    /\ parsed = NoParse
    /\ built = <<>>
    /\ main_config = default_main_config
    /\ user_name_var = main_config.user_name
    /\ robot_dir = [n \in SeqToSet(active_robots) |->
                        RobotFile(n, robot_config[n], TRUE)]
    /\ dialog = NoDialog
    /\ dialogs = 0

\* ---------------------------------------------------------------- UI thread
\* send_message without the reset of line 684.
send_message_keeps_turns(mention, round_cap, send_cap) ==
    LET user_name == IF user_name_var = "" THEN UserName ELSE user_name_var
        user_message == Message("user", "text", user_name,
                                parse_mention(mention, active_robots), "none", 0)
        starts == active_robots # <<>> /\ ai_client
    IN  /\ sends < send_cap
        /\ starts => Len(rounds) < round_cap
        /\ sends' = sends + 1
        /\ message_queue' = Append(message_queue, user_message)
        /\ rounds' = IF starts THEN Append(rounds, Round(user_message, FALSE))
                     ELSE rounds
        /\ UNCHANGED <<user_name_var, main_config, robot_dir, dialog, dialogs, content,
                   parsed, built, active_robots, robot_config, chat_history, after_queue,
                       consumer_msg, ai_conversation_turns, infinite_loop,
                       ai_processing, max_turns_cfg, allow_ai_conversations,
                       ai_client>>

\* send_message with a non-empty input whose leading token is "@mention ".
send_message(mention, round_cap, send_cap) ==
    LET user_name == IF user_name_var = "" THEN UserName ELSE user_name_var
        user_message == Message("user", "text", user_name,
                                parse_mention(mention, active_robots), "none", 0)
        starts == active_robots # <<>> /\ ai_client
    IN  /\ sends < send_cap
        /\ starts => Len(rounds) < round_cap
        /\ sends' = sends + 1
        /\ ai_conversation_turns' = 0
        /\ message_queue' = Append(message_queue, user_message)
        /\ rounds' = IF starts THEN Append(rounds, Round(user_message, FALSE))
                     ELSE rounds
        /\ UNCHANGED <<user_name_var, main_config, robot_dir, dialog, dialogs, content,
                   parsed, built, active_robots, robot_config, chat_history, after_queue,
                       consumer_msg, infinite_loop, ai_processing, max_turns_cfg,
                       allow_ai_conversations, ai_client>>

\* add_message_to_history, run by the event loop.
add_message_to_history(msg) ==
    /\ chat_history' = Append(chat_history, msg)
    /\ UNCHANGED <<message_queue, rounds>>

LimitNotice == Message("system", "limit", SystemName, NoTarget, "none", 0)

\* trigger_ai_response_to_ai_message, run by the event loop.
trigger_ai_response_to_ai_message(ai_message, round_cap) ==
    /\ IF active_robots = <<>> \/ ~ai_client
       THEN UNCHANGED <<message_queue, rounds>>
       ELSE IF ~infinite_loop /\ ai_conversation_turns >= max_turns_cfg
       THEN /\ message_queue' = Append(message_queue, LimitNotice)
            /\ UNCHANGED rounds
       ELSE /\ Len(rounds) < round_cap
            /\ rounds' = Append(rounds, Round(ai_message, TRUE))
            /\ UNCHANGED message_queue
    /\ UNCHANGED chat_history

\* run_after taking the newest posted callback instead of the oldest.
run_after_newest(round_cap) ==
    /\ after_queue # <<>>
    /\ after_queue' = SubSeq(after_queue, 1, Len(after_queue) - 1)
    /\ LET cb == after_queue[Len(after_queue)]
       IN  IF cb.op = "add" THEN add_message_to_history(cb.msg)
           ELSE trigger_ai_response_to_ai_message(cb.msg, round_cap)
    /\ UNCHANGED <<user_name_var, main_config, robot_dir, dialog, dialogs, content,
                   parsed, built, active_robots, robot_config, consumer_msg,
                   ai_conversation_turns, infinite_loop, ai_processing,
                   max_turns_cfg, allow_ai_conversations, ai_client, sends>>

\* The event loop runs the oldest callback posted with root.after(0, ...).
run_after(round_cap) ==
    /\ after_queue # <<>>
    /\ after_queue' = Tail(after_queue)
    /\ LET cb == Head(after_queue)
       IN  IF cb.op = "add" THEN add_message_to_history(cb.msg)
           ELSE trigger_ai_response_to_ai_message(cb.msg, round_cap)
    /\ UNCHANGED <<user_name_var, main_config, robot_dir, dialog, dialogs, content,
                   parsed, built, active_robots, robot_config, consumer_msg,
                   ai_conversation_turns, infinite_loop, ai_processing,
                   max_turns_cfg, allow_ai_conversations, ai_client, sends>>

\* toggle_infinite_loop: the checkbox was clicked.
toggle_infinite_loop ==
    /\ infinite_loop' = ~infinite_loop
    /\ UNCHANGED <<user_name_var, main_config, robot_dir, dialog, dialogs, content,
                   parsed, built, active_robots, robot_config, chat_history, message_queue,
                   after_queue, consumer_msg, ai_conversation_turns,
                   ai_processing, max_turns_cfg, allow_ai_conversations,
                   ai_client, rounds, sends>>

\* list.remove: the sequence without the first occurrence of the name.
RECURSIVE Remove(_, _)
Remove(names, name) ==
    IF names = <<>> THEN <<>>
    ELSE IF Head(names) = name THEN Tail(names)
    ELSE <<Head(names)>> \o Remove(Tail(names), name)

\* delete_robot that leaves the default robots as they are.
delete_robot_keeps_defaults(robot_name) ==
    IF robot_name \notin DOMAIN robot_dir
    THEN [ok |-> FALSE, robot_dir |-> robot_dir, main_config |-> main_config]
    ELSE [ok |-> TRUE,
          robot_dir |-> [n \in DOMAIN robot_dir \ {robot_name} |-> robot_dir[n]],
          main_config |-> main_config]

\* ConfigManager.delete_robot: whether it succeeded, the files and the
\* settings it leaves.
delete_robot(robot_name) ==
    IF robot_name \notin DOMAIN robot_dir
    THEN [ok |-> FALSE, robot_dir |-> robot_dir, main_config |-> main_config]
    ELSE [ok |-> TRUE,
          robot_dir |-> [n \in DOMAIN robot_dir \ {robot_name} |-> robot_dir[n]],
          main_config |->
              IF robot_name \in SeqToSet(main_config.default_robots)
              THEN [main_config EXCEPT
                       !.default_robots = Remove(main_config.default_robots, robot_name)]
              ELSE main_config]

\* delete_selected_robot: a robot of the list (the active robots) is selected
\* and the deletion confirmed; its file is removed, it leaves the default
\* robots and the registry.
delete_selected_robot(robot_name) ==
    LET Others(n) == n # robot_name
        deleted == delete_robot(robot_name)
    IN
    /\ robot_name \in SeqToSet(active_robots)
    /\ robot_dir' = deleted.robot_dir
    /\ main_config' = deleted.main_config
    /\ active_robots' = IF deleted.ok THEN SelectSeq(active_robots, Others)
                        ELSE active_robots
    /\ UNCHANGED <<user_name_var, dialog, dialogs,
                   content, parsed, built, robot_config, chat_history,
                   message_queue, after_queue, consumer_msg,
                   ai_conversation_turns, infinite_loop, ai_processing,
                   max_turns_cfg, allow_ai_conversations, ai_client, rounds, sends>>

\* ---------------------------------------------------------------- settings
\* A message box is shown.
Shows(by, box, arg) ==
    /\ dialog' = [by |-> by, box |-> box, arg |-> arg]
    /\ dialogs' = dialogs + 1

\* The names in the order ROBOT_DIR.glob yields the files.
DirOrder == <<"Ann", "Bob", NewName>>

\* ConfigManager.list_robots
list_robots ==
    LET Stored(n) == n \in DOMAIN robot_dir IN SelectSeq(DirOrder, Stored)

\* The check boxes of the default robots: none of the robots, or all.
DefaultChoices(names) == {<<>>, names}

\* What the fields of the settings window can hold when it is saved.
ConfigForms ==
    [api_key : {""}, base_url : {"url", "bad"}, model : {"gpt"},
     timeout : {IntText(0), IntText(30), NotInt}, proxy : {""},
     allow : BOOLEAN,
     max_turns : { IntText(v) : v \in 0..MaxTurnsCap } \cup {NotInt}]

\* save_all_config with the turn limit stored whatever number was entered.
TurnsAcceptedAny(max_turns) == max_turns.is_int

\* save_all_config, lines 541-545: the turn limit entered is accepted.
TurnsAccepted(max_turns) == max_turns.is_int /\ max_turns.val >= 1

\* save_all_config: the settings window is saved with these fields and these
\* default robots checked. Every set() writes the setting at once.
save_all_config(form, defaults) ==
    LET head == [main_config EXCEPT !.api_key = form.api_key,
                                    !.base_url = form.base_url,
                                    !.model = form.model]
        timeout_ok == form.timeout.is_int /\ form.timeout.val > 0
        mid == [head EXCEPT !.timeout = form.timeout.val, !.proxy = form.proxy]
        Enabled(n) == robot_dir[n].enabled
        loaded == SelectSeq(list_robots, Enabled)
        loaded_config == [n \in DOMAIN robot_config \cup SeqToSet(loaded) |->
                             IF n \in SeqToSet(loaded) THEN robot_dir[n].cfg
                             ELSE robot_config[n]]
        client_ok == form.base_url # "bad"
        entered == <<form.timeout, form.max_turns>>
    IN
    /\ dialogs < MaxDialogs
    /\ IF ~timeout_ok
       THEN /\ main_config' = head
            /\ Shows("save_all_config", "timeout", entered)
            /\ UNCHANGED <<allow_ai_conversations, max_turns_cfg, active_robots,
                           robot_config, chat_history, ai_client>>
       ELSE IF ~TurnsAccepted(form.max_turns)
       THEN /\ main_config' = mid
            /\ allow_ai_conversations' = form.allow
            /\ Shows("save_all_config", "max_turns", entered)
            /\ UNCHANGED <<max_turns_cfg, active_robots, robot_config,
                           chat_history, ai_client>>
       ELSE /\ main_config' = [mid EXCEPT !.default_robots = defaults]
            /\ allow_ai_conversations' = form.allow
            /\ max_turns_cfg' = form.max_turns.val
            /\ active_robots' = loaded
            /\ robot_config' = loaded_config
            /\ chat_history' = chat_history \o SeedMessages(loaded, loaded_config)
            /\ ai_client' = IF client_ok THEN TRUE ELSE ai_client
            /\ dialog' = [by |-> "save_all_config", box |-> "saved", arg |-> entered]
            /\ dialogs' = dialogs + (IF client_ok THEN 1 ELSE 2)
    /\ UNCHANGED <<user_name_var, robot_dir, content, parsed, built,
                   message_queue, after_queue, consumer_msg,
                   ai_conversation_turns, infinite_loop, ai_processing, rounds,
                   sends>>

\* clear_chat: the history keeps its system messages that start with the
\* marker word, the counter is reset.
clear_chat ==
    LET Kept(m) == m.role = "system" /\ StartsWithRobotMarker(m) IN
    /\ ai_conversation_turns' = 0
    /\ chat_history' = SelectSeq(chat_history, Kept)
    /\ UNCHANGED <<user_name_var, main_config, robot_dir, dialog, dialogs, content,
                   parsed, built, active_robots, robot_config, message_queue,
                   after_queue, consumer_msg, infinite_loop, ai_processing,
                   max_turns_cfg, allow_ai_conversations, ai_client, rounds,
                   sends>>

\* ---------------------------------------------------------------- registry
\* The stripped texts the name field of the main window is given.
UserTexts == {"", "Ann", NewName}

\* The user types into the name field (an Entry on user_name_var).
user_name_entry(text) ==
    /\ user_name_var # text
    /\ user_name_var' = text
    /\ UNCHANGED <<main_config, robot_dir, dialog, dialogs, content,
                   parsed, built, active_robots, robot_config, chat_history,
                   message_queue, after_queue, consumer_msg,
                   ai_conversation_turns, infinite_loop, ai_processing,
                   max_turns_cfg, allow_ai_conversations, ai_client, rounds,
                   sends>>

\* save_user_name: the button beside the name field.
save_user_name ==
    LET new_name == user_name_var IN
    /\ dialogs < MaxDialogs
    /\ IF new_name = ""
       THEN Shows("save_user_name", "empty", <<new_name>>) /\ UNCHANGED main_config
       ELSE IF new_name \in SeqToSet(active_robots)
       THEN Shows("save_user_name", "robot", <<new_name>>) /\ UNCHANGED main_config
       ELSE /\ main_config' = [main_config EXCEPT !.user_name = new_name]
            /\ Shows("save_user_name", "updated", <<new_name>>)
    /\ UNCHANGED <<user_name_var, robot_dir, content,
                   parsed, built, active_robots, robot_config, chat_history,
                   message_queue, after_queue, consumer_msg,
                   ai_conversation_turns, infinite_loop, ai_processing,
                   max_turns_cfg, allow_ai_conversations, ai_client, rounds,
                   sends>>

\* ConfigManager.save_robot: the error it shows, or "ok" after writing the file.
ConfigManager_save_robot(name) ==
    IF name = "" THEN "empty"
    ELSE IF name = main_config.user_name THEN "user_name"
    ELSE IF name \in DOMAIN robot_dir /\ robot_dir[name].name # name THEN "exists"
    ELSE "ok"

\* The names the name field of the editor is given, stripped.
EditorNames == {"", "Ann", "Bob", NewName, UserName}

\* The flags a robot is saved with.
EditorConfigs == {RobotConfig(TRUE, FALSE, FALSE)}

\* open_robot_editor.save_robot, lines 1022-1033: the editor's own tests.
editor_rejects(orig, name) ==
    IF name = "" THEN "empty"
    ELSE IF name = main_config.user_name THEN "user_name"
    ELSE IF orig = NoRobot /\ name \in SeqToSet(list_robots) THEN "exists"
    ELSE "ok"

\* save_robot that leaves a robot saved as disabled in the registry.
save_robot_keeps_disabled(orig, name, enabled, cfg) ==
    LET first == editor_rejects(orig, name)
        second == ConfigManager_save_robot(name)
    IN
    /\ dialogs < MaxDialogs
    /\ orig # NoRobot => (orig \in SeqToSet(active_robots) /\ orig \in DOMAIN robot_dir)
    /\ IF first # "ok"
       THEN /\ Shows("save_robot", first, <<orig, name>>)
            /\ UNCHANGED <<robot_dir, active_robots, robot_config>>
       ELSE IF second # "ok"
       THEN /\ Shows("save_robot", second, <<orig, name>>)
            /\ UNCHANGED <<robot_dir, active_robots, robot_config>>
       ELSE /\ robot_dir' = [n \in DOMAIN robot_dir \cup {name} |->
                                IF n = name THEN RobotFile(name, cfg, enabled)
                                ELSE robot_dir[n]]
            /\ active_robots' =
                  IF enabled /\ name \notin SeqToSet(active_robots)
                  THEN Append(active_robots, name)
                  ELSE active_robots
            /\ robot_config' =
                  IF enabled
                  THEN [n \in DOMAIN robot_config \cup {name} |->
                           IF n = name THEN cfg ELSE robot_config[n]]
                  ELSE robot_config
            /\ Shows("save_robot", "saved", <<orig, name>>)
    /\ UNCHANGED <<user_name_var, main_config, content,
                   parsed, built, chat_history,
                   message_queue, after_queue, consumer_msg,
                   ai_conversation_turns, infinite_loop, ai_processing,
                   max_turns_cfg, allow_ai_conversations, ai_client, rounds,
                   sends>>

\* open_robot_editor.save_robot: the editor was opened for a new robot
\* (orig = NoRobot) or for a robot of the list, and is saved with this name.
save_robot(orig, name, enabled, cfg) ==
    LET first == editor_rejects(orig, name)
        second == ConfigManager_save_robot(name)
        Others(n) == n # name
    IN
    /\ dialogs < MaxDialogs
    /\ orig # NoRobot => (orig \in SeqToSet(active_robots) /\ orig \in DOMAIN robot_dir)
    /\ IF first # "ok"
       THEN /\ Shows("save_robot", first, <<orig, name>>)
            /\ UNCHANGED <<robot_dir, active_robots, robot_config>>
       ELSE IF second # "ok"
       THEN /\ Shows("save_robot", second, <<orig, name>>)
            /\ UNCHANGED <<robot_dir, active_robots, robot_config>>
       ELSE /\ robot_dir' = [n \in DOMAIN robot_dir \cup {name} |->
                                IF n = name THEN RobotFile(name, cfg, enabled)
                                ELSE robot_dir[n]]
            /\ active_robots' =
                  IF enabled
                  THEN IF name \in SeqToSet(active_robots) THEN active_robots
                       ELSE Append(active_robots, name)
                  ELSE SelectSeq(active_robots, Others)
            /\ robot_config' =
                  IF enabled
                  THEN [n \in DOMAIN robot_config \cup {name} |->
                           IF n = name THEN cfg ELSE robot_config[n]]
                  ELSE robot_config
            /\ Shows("save_robot", "saved", <<orig, name>>)
    /\ UNCHANGED <<user_name_var, main_config, content,
                   parsed, built, chat_history,
                   message_queue, after_queue, consumer_msg,
                   ai_conversation_turns, infinite_loop, ai_processing,
                   max_turns_cfg, allow_ai_conversations, ai_client, rounds,
                   sends>>

\* ---------------------------------------------------------------- consumer
\* MayTrigger with the infinite-loop alternative left out.
MayTriggerCountOnly(msg) ==
    /\ msg.role = "assistant"
    /\ allow_ai_conversations
    /\ ai_conversation_turns < max_turns_cfg

\* process_messages_get of a consumer that ends on a failure notice.
process_messages_get_stops ==
    /\ consumer_msg = NoMsg
    /\ message_queue # <<>>
    /\ Head(message_queue).kind # "fail"
    /\ consumer_msg' = Head(message_queue)
    /\ message_queue' = Tail(message_queue)
    /\ after_queue' = Append(after_queue, [op |-> "add", msg |-> Head(message_queue)])
    /\ UNCHANGED <<user_name_var, main_config, robot_dir, dialog, dialogs, content,
                   parsed, built, active_robots, robot_config, chat_history,
                   ai_conversation_turns, infinite_loop, ai_processing,
                   max_turns_cfg, allow_ai_conversations, ai_client, rounds,
                   sends>>

\* process_messages, lines 444-445: take a message, post its append.
process_messages_get ==
    /\ consumer_msg = NoMsg
    /\ message_queue # <<>>
    /\ consumer_msg' = Head(message_queue)
    /\ message_queue' = Tail(message_queue)
    /\ after_queue' = Append(after_queue, [op |-> "add", msg |-> Head(message_queue)])
    /\ UNCHANGED <<user_name_var, main_config, robot_dir, dialog, dialogs, content,
                   parsed, built, active_robots, robot_config, chat_history,
                   ai_conversation_turns, infinite_loop, ai_processing,
                   max_turns_cfg, allow_ai_conversations, ai_client, rounds,
                   sends>>

\* process_messages, lines 448-450: the condition for an autonomous round.
MayTrigger(msg) ==
    /\ msg.role = "assistant"
    /\ allow_ai_conversations
    /\ (infinite_loop \/ ai_conversation_turns < max_turns_cfg)

\* process_messages, lines 447-454: examine the message taken.
process_messages_check ==
    /\ consumer_msg # NoMsg
    /\ consumer_msg' = NoMsg
    /\ after_queue' = IF MayTrigger(consumer_msg) /\ ~ai_processing
                      THEN Append(after_queue, [op |-> "trig", msg |-> consumer_msg])
                      ELSE after_queue
    /\ UNCHANGED <<user_name_var, main_config, robot_dir, dialog, dialogs, content,
                   parsed, built, active_robots, robot_config, chat_history, message_queue,
                   ai_conversation_turns, infinite_loop, ai_processing,
                   max_turns_cfg, allow_ai_conversations, ai_client, rounds,
                   sends>>

\* ---------------------------------------------------------------- rounds
RoundIds == 1..Len(rounds)

\* trigger_ai_responses, lines 756-778: the flag and the local max_turns; a
\* human round goes on to its responders, an autonomous round loads the
\* counter for the augmented assignment of line 762 (a load, an add and a
\* store of a field shared with the other threads, under no lock).
trigger_ai_responses_begin(r) ==
    /\ rounds[r].pc = "start"
    /\ ai_processing' = TRUE
    /\ rounds' = IF rounds[r].is_ai_message
                 THEN [rounds EXCEPT ![r].pc = "incr",
                                     ![r].max_turns = max_turns_cfg,
                                     ![r].turns_read = ai_conversation_turns]
                 ELSE [rounds EXCEPT ![r].pc = "loop",
                                     ![r].max_turns = max_turns_cfg,
                                     ![r].responding =
                                         responding_robots(active_robots, robot_config,
                                             rounds[r].last_message, FALSE)]
    /\ UNCHANGED <<user_name_var, main_config, robot_dir, dialog, dialogs, content,
                   parsed, built, active_robots, robot_config, chat_history, message_queue,
                   after_queue, consumer_msg, ai_conversation_turns, infinite_loop,
                   max_turns_cfg, allow_ai_conversations, ai_client, sends>>

\* trigger_ai_responses_incr storing the counter as it was loaded.
trigger_ai_responses_incr_keeps_turns(r) ==
    /\ rounds[r].pc = "incr"
    /\ ai_conversation_turns' = rounds[r].turns_read
    /\ rounds' = [rounds EXCEPT ![r].pc = "loop",
                                ![r].turns_read = 0,
                                ![r].responding =
                                    responding_robots(active_robots, robot_config,
                                        rounds[r].last_message, TRUE)]
    /\ UNCHANGED <<user_name_var, main_config, robot_dir, dialog, dialogs, content,
                   parsed, built, active_robots, robot_config, chat_history, message_queue,
                   after_queue, consumer_msg, infinite_loop, ai_processing,
                   max_turns_cfg, allow_ai_conversations, ai_client, sends>>

\* trigger_ai_responses, lines 762-778 of an autonomous round: the store of
\* the augmented assignment, then the responders.
trigger_ai_responses_incr(r) ==
    /\ rounds[r].pc = "incr"
    /\ ai_conversation_turns' = rounds[r].turns_read + 1
    /\ rounds' = [rounds EXCEPT ![r].pc = "loop",
                                ![r].turns_read = 0,
                                ![r].responding =
                                    responding_robots(active_robots, robot_config,
                                        rounds[r].last_message, TRUE)]
    /\ UNCHANGED <<user_name_var, main_config, robot_dir, dialog, dialogs, content,
                   parsed, built, active_robots, robot_config, chat_history, message_queue,
                   after_queue, consumer_msg, infinite_loop, ai_processing,
                   max_turns_cfg, allow_ai_conversations, ai_client, sends>>

StopNotice(r) == Message("system", "stop", SystemName, NoTarget, "none", r)

\* The thread has left the function.
Finished(rec) == [rec EXCEPT !.pc = "done", !.view = NoView]

\* trigger_ai_responses, lines 780-843 and 887-888: the head of the responder
\* loop: leave when the responders are exhausted, break on the turn check, or
\* build the next responder's request; leaving runs the finally clause.
trigger_ai_responses_next(r) ==
    LET rec == rounds[r] IN
    /\ rec.pc = "loop"
    /\ IF rec.i > Len(rec.responding)
       THEN /\ rounds' = [rounds EXCEPT ![r] = Finished(rec)]
            /\ ai_processing' = FALSE
            /\ UNCHANGED message_queue
       ELSE IF ~infinite_loop /\ ai_conversation_turns > rec.max_turns
       THEN /\ message_queue' = Append(message_queue, StopNotice(r))
            /\ rounds' = [rounds EXCEPT ![r] = [Finished(rec) EXCEPT !.broke = TRUE]]
            /\ ai_processing' = FALSE
       ELSE /\ rounds' = [rounds EXCEPT ![r].pc = "call",
                             ![r].view = robot_specific_history(chat_history,
                                 rec.responding[rec.i], active_robots, robot_config)]
            /\ UNCHANGED <<message_queue, ai_processing>>
    /\ UNCHANGED <<user_name_var, main_config, robot_dir, dialog, dialogs, content,
                   parsed, built, active_robots, robot_config, chat_history, after_queue,
                   consumer_msg, ai_conversation_turns, infinite_loop,
                   max_turns_cfg, allow_ai_conversations, ai_client, sends>>

\* What a completion call can come back with: an exception, a response with
\* no choices, or a reply whose leading token is "@mention ".
Outcomes ==
    {<<"fail", NoTarget>>, <<"empty", NoTarget>>}
        \cup { <<"reply", m>> : m \in {NoTarget} \cup RobotNames }

\* trigger_ai_responses, lines 845-885: the completion call returns.
trigger_ai_responses_reply(r, outcome) ==
    LET rec == rounds[r]
        robot_name == rec.responding[rec.i]
        ai_message == Message("assistant", "text", robot_name,
                              parse_mention(outcome[2], active_robots), "none", r)
        error_msg == Message("system", "fail", SystemName, NoTarget, robot_name, r)
    IN
    /\ rec.pc = "call"
    /\ message_queue' = IF outcome[1] = "fail" THEN Append(message_queue, error_msg)
                        ELSE IF outcome[1] = "empty" THEN message_queue
                        ELSE Append(message_queue, ai_message)
    /\ rounds' = [rounds EXCEPT ![r].pc = "loop", ![r].i = rec.i + 1,
                                ![r].invoked = rec.invoked + 1,
                                ![r].view = NoView]
    /\ UNCHANGED <<user_name_var, main_config, robot_dir, dialog, dialogs, content,
                   parsed, built, active_robots, robot_config, chat_history, after_queue,
                   consumer_msg, ai_conversation_turns, infinite_loop,
                   ai_processing, max_turns_cfg, allow_ai_conversations,
                   ai_client, sends>>

\* ---------------------------------------------------------------- Next
\* The leading tokens a human input can have.
Mentions == {NoTarget, UnknownName} \cup RobotNames

Next ==
    \/ \E mention \in Mentions : send_message(mention, MaxRounds, MaxHuman)
    \/ run_after(MaxRounds)
    \/ toggle_infinite_loop
    \/ process_messages_get
    \/ process_messages_check
    \/ \E r \in RoundIds : trigger_ai_responses_begin(r)
    \/ \E r \in RoundIds : trigger_ai_responses_incr(r)
    \/ \E r \in RoundIds : trigger_ai_responses_next(r)
    \/ \E r \in RoundIds, outcome \in Outcomes : trigger_ai_responses_reply(r, outcome)

Spec == Init /\ [][Next]_vars

\* The same program in one setting: both robots answer everything, the turn
\* limit is 1, infinite-loop mode stays off, the human's messages and the
\* robots' replies are public and every completion call succeeds; with more
\* human messages and more round threads than Spec.
InitRace ==
    /\ Init
    /\ robot_config = [Ann |-> RobotConfig(TRUE, TRUE, TRUE),
                       Bob |-> RobotConfig(FALSE, TRUE, TRUE)]
    /\ max_turns_cfg = 1
    /\ allow_ai_conversations
    /\ ai_client

NextRace ==
    \/ send_message(NoTarget, MaxRoundsRace, MaxHumanRace)
    \/ run_after(MaxRoundsRace)
    \/ process_messages_get
    \/ process_messages_check
    \/ \E r \in RoundIds : trigger_ai_responses_begin(r)
    \/ \E r \in RoundIds : trigger_ai_responses_incr(r)
    \/ \E r \in RoundIds : trigger_ai_responses_next(r)
    \/ \E r \in RoundIds : trigger_ai_responses_reply(r, <<"reply", NoTarget>>)

SpecRace == InitRace /\ [][NextRace]_vars

\* The messages submitted so far, in submission order: those appended, those
\* whose append is posted, those still in the queue.
RECURSIVE PostedAdds(_)
PostedAdds(q) ==
    IF q = <<>> THEN <<>>
    ELSE (IF Head(q).op = "add" THEN <<Head(q).msg>> ELSE <<>>) \o PostedAdds(Tail(q))

Submitted == chat_history \o PostedAdds(after_queue) \o message_queue

\* The setting of SpecRace with one human message, addressed or not, replies
\* addressed or not, and robots being deleted at any time. robot_config keeps
\* the flags of a deleted robot for the rounds that selected it before.
NextRoster ==
    \/ \E mention \in Mentions : send_message(mention, MaxRounds, MaxHuman)
    \/ run_after(MaxRounds)
    \/ \E robot_name \in RobotNames : delete_selected_robot(robot_name)
    \/ process_messages_get
    \/ process_messages_check
    \/ \E r \in RoundIds : trigger_ai_responses_begin(r)
    \/ \E r \in RoundIds : trigger_ai_responses_incr(r)
    \/ \E r \in RoundIds : trigger_ai_responses_next(r)
    \/ \E r \in RoundIds, m \in {NoTarget} \cup RobotNames :
          trigger_ai_responses_reply(r, <<"reply", m>>)

SpecRoster == InitRace /\ [][NextRoster]_vars

\* A setting where completion calls can fail: both robots answer the public
\* messages of the human and no message of a robot (auto_respond_to_ai off),
\* the turn limit is 1 and infinite-loop mode stays off.
InitFail ==
    /\ active_robots = <<"Ann", "Bob">>
    /\ robot_config = [Ann |-> RobotConfig(TRUE, FALSE, TRUE),
                       Bob |-> RobotConfig(FALSE, FALSE, TRUE)]
    /\ chat_history = SeedMessages(active_robots, robot_config)
    /\ message_queue = <<>>
    /\ after_queue = <<>>
    /\ consumer_msg = NoMsg
    /\ ai_conversation_turns = 0
    /\ infinite_loop = FALSE
    /\ ai_processing = FALSE
    /\ max_turns_cfg = 1
    /\ allow_ai_conversations = TRUE
    /\ ai_client = TRUE
    /\ rounds = <<>>
    /\ sends = 0
    /\ content = <<>>
    /\ parsed = NoParse
    /\ built = <<>>
    /\ main_config = default_main_config
    /\ user_name_var = main_config.user_name
    /\ robot_dir = [n \in SeqToSet(active_robots) |->
                        RobotFile(n, robot_config[n], TRUE)]
    /\ dialog = NoDialog
    /\ dialogs = 0

NextFail ==
    \/ send_message(NoTarget, MaxRoundsRace, MaxHumanRace)
    \/ run_after(MaxRoundsRace)
    \/ process_messages_get
    \/ process_messages_check
    \/ \E r \in RoundIds : trigger_ai_responses_begin(r)
    \/ \E r \in RoundIds : trigger_ai_responses_incr(r)
    \/ \E r \in RoundIds : trigger_ai_responses_next(r)
    \/ \E r \in RoundIds, outcome \in {<<"reply", NoTarget>>, <<"fail", NoTarget>>} :
          trigger_ai_responses_reply(r, outcome)

SpecFail == InitFail /\ [][NextFail]_vars

\* The setting of SpecRace with one human message and one round, the settings
\* window being saved and the chat being cleared at any time.
NextSettings ==
    \/ send_message(NoTarget, MaxRoundsSettings, MaxHuman)
    \/ run_after(MaxRoundsSettings)
    \/ \E form \in ConfigForms, defaults \in DefaultChoices(list_robots) :
          save_all_config(form, defaults)
    \/ clear_chat
    \/ process_messages_get
    \/ process_messages_check
    \/ \E r \in RoundIds : trigger_ai_responses_begin(r)
    \/ \E r \in RoundIds : trigger_ai_responses_next(r)
    \/ \E r \in RoundIds : trigger_ai_responses_reply(r, <<"reply", NoTarget>>)

SpecSettings == InitRace /\ [][NextSettings]_vars

\* The settings window saved with valid fields, the box that allows the
\* robots' conversations checked or not.
AllowForms ==
    { form \in ConfigForms : /\ form.timeout = IntText(30)
                             /\ form.base_url = "url"
                             /\ form.max_turns = IntText(1) }

\* The setting of SpecRace with one human message, its round and one further
\* round, the settings window being saved at any time.
NextAllow ==
    \/ send_message(NoTarget, MaxRoundsAllow, MaxHuman)
    \/ run_after(MaxRoundsAllow)
    \/ \E form \in AllowForms : save_all_config(form, <<>>)
    \/ process_messages_get
    \/ process_messages_check
    \/ \E r \in RoundIds : trigger_ai_responses_begin(r)
    \/ \E r \in RoundIds : trigger_ai_responses_incr(r)
    \/ \E r \in RoundIds : trigger_ai_responses_next(r)
    \/ \E r \in RoundIds : trigger_ai_responses_reply(r, <<"reply", NoTarget>>)

SpecAllow == InitRace /\ [][NextAllow]_vars

\* The robots of SpecRace, both or none of them default robots, no client
\* (no round is started), the human sending one message.
InitRegistry ==
    /\ active_robots = <<"Ann", "Bob">>
    /\ robot_config = [Ann |-> RobotConfig(TRUE, TRUE, TRUE),
                       Bob |-> RobotConfig(FALSE, TRUE, TRUE)]
    /\ chat_history = SeedMessages(active_robots, robot_config)
    /\ message_queue = <<>>
    /\ after_queue = <<>>
    /\ consumer_msg = NoMsg
    /\ ai_conversation_turns = 0
    /\ infinite_loop = FALSE
    /\ ai_processing = FALSE
    /\ max_turns_cfg = 1
    /\ allow_ai_conversations = TRUE
    /\ ai_client = FALSE
    /\ rounds = <<>>
    /\ sends = 0
    /\ content = <<>>
    /\ parsed = NoParse
    /\ built = <<>>
    /\ main_config \in { [default_main_config EXCEPT !.default_robots = d] :
                            d \in {<<>>, <<"Ann", "Bob">>} }
    /\ user_name_var = main_config.user_name
    /\ robot_dir = [n \in SeqToSet(active_robots) |->
                        RobotFile(n, robot_config[n], TRUE)]
    /\ dialog = NoDialog
    /\ dialogs = 0

NextRegistry ==
    \/ \E text \in UserTexts : user_name_entry(text)
    \/ save_user_name
    \/ \E orig \in {NoRobot} \cup RobotNames \cup {NewName}, name \in EditorNames,
           enabled \in BOOLEAN, cfg \in EditorConfigs :
          save_robot(orig, name, enabled, cfg)
    \/ \E robot_name \in RobotNames \cup {NewName} : delete_selected_robot(robot_name)
    \/ \E mention \in {NoTarget, "Ann"} : send_message(mention, MaxRounds, MaxHuman)
    \/ process_messages_get
    \/ process_messages_check
    \/ run_after(MaxRounds)

SpecRegistry == InitRegistry /\ [][NextRegistry]_vars

\* The round threads that can be asked for in the setting of SpecFail: one per
\* human message and one per reply to it (a reply is examined once, and the
\* round started for it has no responder).
RoundsLive == MaxHuman * (1 + Cardinality(RobotNames))

\* The setting of SpecFail with MaxHuman human messages, completion calls
\* replying, failing or returning no choice; every thread that can take a
\* step takes one in the end: the consumer thread, the event loop and the
\* round threads.
NextLive ==
    \/ send_message(NoTarget, RoundsLive, MaxHuman)
    \/ run_after(RoundsLive)
    \/ process_messages_get
    \/ process_messages_check
    \/ \E r \in RoundIds : trigger_ai_responses_begin(r)
    \/ \E r \in RoundIds : trigger_ai_responses_incr(r)
    \/ \E r \in RoundIds : trigger_ai_responses_next(r)
    \/ \E r \in RoundIds, outcome \in {<<"reply", NoTarget>>, <<"fail", NoTarget>>,
                                       <<"empty", NoTarget>>} :
          trigger_ai_responses_reply(r, outcome)

SpecLive ==
    /\ InitFail
    /\ [][NextLive]_vars
    /\ WF_vars(run_after(RoundsLive))
    /\ WF_vars(process_messages_get)
    /\ WF_vars(process_messages_check)
    /\ WF_vars(\E r \in RoundIds : trigger_ai_responses_begin(r))
    /\ WF_vars(\E r \in RoundIds : trigger_ai_responses_incr(r))
    /\ WF_vars(\E r \in RoundIds : trigger_ai_responses_next(r))
    /\ WF_vars(\E r \in RoundIds, outcome \in {<<"reply", NoTarget>>,
                   <<"fail", NoTarget>>, <<"empty", NoTarget>>} :
                   trigger_ai_responses_reply(r, outcome))

\* A number of round threads above what the setting of SpecQuiet asks for
\* (C36_FeedbackLoopBounded states that it is never reached).
RoundsQuiet == MaxHuman * (MaxHuman + 1) * (MaxTurnsCap + 1) + 1

\* The setting of SpecRace with any turn limit up to MaxTurnsCap.
InitQuiet ==
    /\ Init
    /\ robot_config = [Ann |-> RobotConfig(TRUE, TRUE, TRUE),
                       Bob |-> RobotConfig(FALSE, TRUE, TRUE)]
    /\ allow_ai_conversations
    /\ ai_client

NextQuiet ==
    \/ send_message(NoTarget, RoundsQuiet, MaxHuman)
    \/ run_after(RoundsQuiet)
    \/ process_messages_get
    \/ process_messages_check
    \/ \E r \in RoundIds : trigger_ai_responses_begin(r)
    \/ \E r \in RoundIds : trigger_ai_responses_incr(r)
    \/ \E r \in RoundIds : trigger_ai_responses_next(r)
    \/ \E r \in RoundIds : trigger_ai_responses_reply(r, <<"reply", NoTarget>>)

\* Infinite-loop mode off, MaxHuman human messages sent at any time or never;
\* the consumer thread, the event loop and the round threads each take a step
\* in the end when they can.
SpecQuiet ==
    /\ InitQuiet
    /\ [][NextQuiet]_vars
    /\ WF_vars(run_after(RoundsQuiet))
    /\ WF_vars(process_messages_get)
    /\ WF_vars(process_messages_check)
    /\ WF_vars(\E r \in RoundIds : trigger_ai_responses_begin(r))
    /\ WF_vars(\E r \in RoundIds : trigger_ai_responses_incr(r))
    /\ WF_vars(\E r \in RoundIds : trigger_ai_responses_next(r))
    /\ WF_vars(\E r \in RoundIds : trigger_ai_responses_reply(r, <<"reply", NoTarget>>))

\* The setting of SpecRace with one human message, its round and one further
\* round, robots being deleted and the editor saving Ann or a new robot,
\* enabled or not, with flags that make it answer every message.
NextRemoval ==
    \/ send_message(NoTarget, MaxRoundsAllow, MaxHuman)
    \/ run_after(MaxRoundsAllow)
    \/ \E robot_name \in RobotNames \cup {NewName} : delete_selected_robot(robot_name)
    \/ \E orig \in {NoRobot, "Ann"}, name \in {"Ann", NewName}, enabled \in BOOLEAN :
          save_robot(orig, name, enabled, RobotConfig(TRUE, TRUE, TRUE))
    \/ process_messages_get
    \/ process_messages_check
    \/ \E r \in RoundIds : trigger_ai_responses_begin(r)
    \/ \E r \in RoundIds : trigger_ai_responses_incr(r)
    \/ \E r \in RoundIds : trigger_ai_responses_next(r)
    \/ \E r \in RoundIds : trigger_ai_responses_reply(r, <<"reply", NoTarget>>)

SpecRemoval == InitRace /\ [][NextRemoval]_vars

\* ---------------------------------------------------------------- parse_mention
\* Texts as sequences of characters: "@", two word characters, a whitespace
\* character and a character that is neither.
Chars == {"@", "a", "b", " ", "-"}
IsWord(c) == c \in {"a", "b"}
IsSpace(c) == c = " "

\* Robot names as the editor accepts them (non-empty, stripped, any characters).
NamesAsText == { <<"a">>, <<"a", "b">>, <<"a", "-", "b">> }

\* No target: parse_mention returned None for it.
NoTargetText == <<>>

RECURSIVE WordRun(_)
\* The length of the longest prefix of word characters: what \w+ takes.
WordRun(text) ==
    IF text # <<>> /\ IsWord(Head(text)) THEN 1 + WordRun(Tail(text)) ELSE 0

\* parse_mention on the characters of the text: re.match(r'^@(\w+)\s', content),
\* the test of group 1 against the active robots, re.sub of the match.
parse_mention_text(text, active) ==
    LET run == IF text = <<>> THEN 0 ELSE WordRun(Tail(text))
        match == /\ text # <<>>
                 /\ Head(text) = "@"
                 /\ run >= 1
                 /\ Len(text) >= run + 2
                 /\ IsSpace(text[run + 2])
        target == SubSeq(text, 2, run + 1)
    IN  IF match /\ target \in active
        THEN [content |-> SubSeq(text, run + 3, Len(text)), target |-> target]
        ELSE [content |-> text, target |-> NoTargetText]

RECURSIVE Texts(_)
\* The texts of at most n characters.
Texts(n) ==
    IF n = 0 THEN {<<>>}
    ELSE LET shorter == Texts(n - 1)
         IN  shorter \cup { Append(t, c) : t \in shorter, c \in Chars }

\* parse_mention is about to be called with any text, any robots being active.
InitParse ==
    /\ active_robots \in { <<>>, << <<"a">> >>, << <<"a", "b">> >>,
                           << <<"a">>, <<"a", "-", "b">> >>,
                           << <<"a">>, <<"a", "b">>, <<"a", "-", "b">> >> }
    /\ content \in Texts(MaxLen)
    /\ parsed = NoParse
    /\ robot_config = <<>>
    /\ chat_history = <<>>
    /\ message_queue = <<>>
    /\ after_queue = <<>>
    /\ consumer_msg = NoMsg
    /\ ai_conversation_turns = 0
    /\ infinite_loop = FALSE
    /\ ai_processing = FALSE
    /\ max_turns_cfg = 1
    /\ allow_ai_conversations = TRUE
    /\ ai_client = FALSE
    /\ rounds = <<>>
    /\ sends = 0
    /\ built = <<>>
    /\ main_config = default_main_config
    /\ user_name_var = main_config.user_name
    /\ robot_dir = <<>>
    /\ dialog = NoDialog
    /\ dialogs = 0

\* The call returns.
parse_mention_call ==
    /\ parsed = NoParse
    /\ parsed' = parse_mention_text(content, SeqToSet(active_robots))
    /\ UNCHANGED <<user_name_var, main_config, robot_dir, dialog, dialogs,
                   content, built, active_robots, robot_config, chat_history,
                   message_queue, after_queue, consumer_msg,
                   ai_conversation_turns, infinite_loop, ai_processing,
                   max_turns_cfg, allow_ai_conversations, ai_client, rounds, sends>>

SpecParse == InitParse /\ [][parse_mention_call]_vars

\* ---------------------------------------------------------------- replies
RECURSIVE LStrip(_)
\* str.lstrip: the text without its leading whitespace.
LStrip(text) ==
    IF text # <<>> /\ IsSpace(Head(text)) THEN LStrip(Tail(text)) ELSE text

\* str.startswith
StartsWith(text, prefix) ==
    Len(text) >= Len(prefix) /\ SubSeq(text, 1, Len(prefix)) = prefix

\* trigger_ai_responses, lines 854-867: the content and the target of the
\* message made of a robot's response: parse_mention on the response, then the
\* robot's own name and a colon taken off the front of what it returned.
reply_text(text, robot_name, active) ==
    LET p == parse_mention_text(text, active)
        name_prefix == robot_name \o <<":">>
    IN  [content |-> IF StartsWith(p.content, name_prefix)
                     THEN LStrip(SubSeq(p.content, Len(name_prefix) + 1,
                                        Len(p.content)))
                     ELSE p.content,
         target |-> p.target]

\* The responses: any text of at most MaxBody characters, on its own or after
\* a robot's name and a colon, with or without a space.
ReplyTexts(names) ==
    { pre \o body :
        pre \in {<<>>} \cup { n \o <<":">> : n \in names }
                       \cup { n \o <<":", " ">> : n \in names },
        body \in Texts(MaxBody) }

\* A completion call of a round is in flight for one of the active robots and
\* comes back with any response.
InitReply ==
    /\ active_robots \in { << <<"a">> >>, << <<"a">>, <<"a", "b">> >>,
                           << <<"a">>, <<"a", "b">>, <<"a", "-", "b">> >> }
    /\ \E robot_name \in SeqToSet(active_robots) :
          rounds = << [Round(NoMsg, FALSE) EXCEPT !.pc = "call",
                                                  !.responding = <<robot_name>>] >>
    /\ content \in ReplyTexts(SeqToSet(active_robots))
    /\ parsed = NoParse
    /\ robot_config = <<>>
    /\ chat_history = <<>>
    /\ message_queue = <<>>
    /\ after_queue = <<>>
    /\ consumer_msg = NoMsg
    /\ ai_conversation_turns = 0
    /\ infinite_loop = FALSE
    /\ ai_processing = TRUE
    /\ max_turns_cfg = 1
    /\ allow_ai_conversations = TRUE
    /\ ai_client = TRUE
    /\ sends = 0
    /\ built = <<>>
    /\ main_config = default_main_config
    /\ user_name_var = main_config.user_name
    /\ robot_dir = <<>>
    /\ dialog = NoDialog
    /\ dialogs = 0

\* The content and the target of the reply are computed.
reply_text_call ==
    /\ parsed = NoParse
    /\ parsed' = reply_text(content, rounds[1].responding[1], SeqToSet(active_robots))
    /\ UNCHANGED <<user_name_var, main_config, robot_dir, dialog, dialogs,
                   content, built, active_robots, robot_config, chat_history,
                   message_queue, after_queue, consumer_msg,
                   ai_conversation_turns, infinite_loop, ai_processing,
                   max_turns_cfg, allow_ai_conversations, ai_client, rounds, sends>>

SpecReply == InitReply /\ [][reply_text_call]_vars

\* ---------------------------------------------------------------- views
\* The robots of SpecView: one of them is named by the marker word.
ViewRobots == <<"Ann", RobotMarker>>

\* The messages a history can hold: human messages and replies, public or
\* addressed, the seed messages, the failure notices, the two limit notices.
MessagePool ==
    { Message("user", "text", UserName, t, "none", 0) :
         t \in {NoTarget} \cup SeqToSet(ViewRobots) }
    \cup { Message("assistant", "text", n, t, "none", 0) :
              n \in SeqToSet(ViewRobots), t \in {NoTarget} \cup SeqToSet(ViewRobots) }
    \cup { Message("system", k, SystemName, NoTarget, n, 0) :
              k \in {"prompt", "roster", "fail"}, n \in SeqToSet(ViewRobots) }
    \cup { LimitNotice, StopNotice(1) }

RECURSIVE Histories(_)
\* The histories of at most n messages.
Histories(n) ==
    IF n = 0 THEN {<<>>}
    ELSE LET shorter == Histories(n - 1)
         IN  shorter \cup { Append(h, m) : h \in shorter, m \in MessagePool }

\* Any history (clear_chat leaves the persona seeds alone, and anything can
\* follow them), with no round and no message on its way.
InitView ==
    /\ active_robots = ViewRobots
    /\ robot_config = [n \in SeqToSet(ViewRobots) |-> RobotConfig(TRUE, TRUE, TRUE)]
    /\ chat_history \in Histories(MaxHist)
    /\ built = <<>>
    /\ content = <<>>
    /\ parsed = NoParse
    /\ message_queue = <<>>
    /\ after_queue = <<>>
    /\ consumer_msg = NoMsg
    /\ ai_conversation_turns = 0
    /\ infinite_loop = FALSE
    /\ ai_processing = FALSE
    /\ max_turns_cfg = 1
    /\ allow_ai_conversations = TRUE
    /\ ai_client = TRUE
    /\ rounds = <<>>
    /\ sends = 0
    /\ main_config = default_main_config
    /\ user_name_var = main_config.user_name
    /\ robot_dir = [n \in SeqToSet(active_robots) |->
                        RobotFile(n, robot_config[n], TRUE)]
    /\ dialog = NoDialog
    /\ dialogs = 0

\* trigger_ai_responses, lines 795-839, on their own: the list for a robot is
\* built from the history, the registry and the settings as they are.
build_view(robot_name) ==
    /\ Len(built) < MaxBuilds
    /\ built' = Append(built, robot_specific_history(chat_history, robot_name,
                                                     active_robots, robot_config))
    /\ UNCHANGED <<user_name_var, main_config, robot_dir, dialog, dialogs,
                   content, parsed, active_robots, robot_config, chat_history,
                   message_queue, after_queue, consumer_msg,
                   ai_conversation_turns, infinite_loop, ai_processing,
                   max_turns_cfg, allow_ai_conversations, ai_client, rounds, sends>>

NextView == \E robot_name \in SeqToSet(active_robots) : build_view(robot_name)

SpecView == InitView /\ [][NextView]_vars

\* ---------------------------------------------------------------- claims
Executing(r) == rounds[r].pc \in {"incr", "loop", "call"}

\* C1: the message list built for robot A's completion request holds no
\* message whose target is another robot than A, unless A sent it.
C1_ViewHidesThirdPartyTraffic ==
    \A r \in RoundIds :
        rounds[r].pc = "call" =>
            LET A == rounds[r].view.lead.robot
                msgs == rounds[r].view.msgs
            IN  \A k \in 1..Len(msgs) :
                    (msgs[k].target # NoTarget /\ msgs[k].target # A)
                        => msgs[k].name = A

\* A request is in flight for a robot A whose view holds a message A itself
\* addressed to the other robot, while the history holds a message addressed
\* to the other robot by someone else.
C1_Witness ==
    \E r \in RoundIds :
        /\ rounds[r].pc = "call"
        /\ LET A == rounds[r].view.lead.robot
               msgs == rounds[r].view.msgs
           IN  /\ \E k \in 1..Len(msgs) :
                     msgs[k].target \notin {NoTarget, A} /\ msgs[k].name = A
               /\ \E k \in 1..Len(chat_history) :
                     /\ chat_history[k].target \notin {NoTarget, A}
                     /\ chat_history[k].name # A
                     /\ chat_history[k] \notin SeqToSet(msgs)

\* C2: no responder's view holds a reply or notice produced by its own round.
C2_ViewFromRoundStartHistory ==
    \A r \in RoundIds :
        rounds[r].pc = "call" =>
            \A k \in 1..Len(rounds[r].view.msgs) : rounds[r].view.msgs[k].rid # r

\* C3: with infinite-loop mode off the turn counter is at most the turn limit.
C3_TurnsWithinLimit ==
    ~infinite_loop => ai_conversation_turns <= max_turns_cfg

\* The agent-authored messages submitted after the last human message.
AgentRun ==
    LET users == { k \in 1..Len(Submitted) : Submitted[k].role = "user" }
    IN  { Submitted[k] : k \in { j \in 1..Len(Submitted) :
                                    /\ Submitted[j].role = "assistant"
                                    /\ \A u \in users : u < j } }

\* The autonomous rounds begun for a message of that run.
RunRounds ==
    { r \in RoundIds : /\ rounds[r].is_ai_message
                       /\ rounds[r].pc # "start"
                       /\ rounds[r].last_message \in AgentRun }

\* C4: with infinite-loop mode off, a run of maxTurns + 1 agent-authored
\* submissions with no human message in between starts no more than maxTurns
\* autonomous rounds (the claim: exactly maxTurns, and none after them).
C4_RunStartsMaxTurnsRounds ==
    (~infinite_loop /\ Cardinality(AgentRun) >= max_turns_cfg + 1)
        => Cardinality(RunRounds) <= max_turns_cfg

\* The consumer examines an agent-authored message.
ConsumerExamines ==
    consumer_msg # NoMsg /\ consumer_msg' = NoMsg /\ consumer_msg.role = "assistant"

TrigPosted ==
    after_queue' = Append(after_queue, [op |-> "trig", msg |-> consumer_msg])

\* C5: an agent-authored message examined while autonomous responding is not
\* permitted (infinite-loop off, turnCount >= maxTurns) gets its limit notice:
\* the notice is enqueued, or the callback that enqueues it is posted.
C5_LimitNoticeWhenNotPermitted ==
    [][ (/\ ConsumerExamines
         /\ allow_ai_conversations
         /\ ~infinite_loop
         /\ ai_conversation_turns >= max_turns_cfg)
        => (TrigPosted \/ message_queue' = Append(message_queue, LimitNotice)) ]_vars

\* C6: a human send leaves the turn counter at 0, and autonomous responding
\* permitted when the turn limit is at least 1.
C6_SendResetsTurns ==
    [][ sends' = sends + 1
        => /\ ai_conversation_turns' = 0
           /\ (max_turns_cfg' >= 1 => ai_conversation_turns' < max_turns_cfg') ]_vars

\* A human message was just sent after an autonomous round had raised the
\* counter to the limit: the newest round is the human's, not yet begun, an
\* earlier autonomous round has begun, and the counter is 0.
C6_Witness ==
    /\ Len(rounds) >= 2
    /\ ~rounds[Len(rounds)].is_ai_message
    /\ rounds[Len(rounds)].pc = "start"
    /\ \E r \in 1..(Len(rounds) - 1) :
          rounds[r].is_ai_message /\ rounds[r].pc # "start"
    /\ ai_conversation_turns = 0
    /\ max_turns_cfg = 1

\* C7: the increment of a round triggered by an agent-authored message raises
\* the turn counter by exactly 1; a human-triggered round does not change it
\* when it begins; no later step of a round (a responder's request or reply,
\* the end of the round) changes it.
C7_OneIncrementPerAutonomousRound ==
    [][ \A r \in RoundIds :
          /\ (rounds[r].pc = "incr" /\ rounds'[r].pc # "incr")
                => ai_conversation_turns' = ai_conversation_turns + 1
          /\ (rounds[r].pc = "start" /\ rounds'[r].pc # "start")
                => ai_conversation_turns' = ai_conversation_turns
          /\ (rounds[r].pc \in {"loop", "call"} /\ rounds'[r] # rounds[r])
                => ai_conversation_turns' = ai_conversation_turns ]_vars

\* C8: at most one autonomous round is executing at any time, and none
\* executes beside another executing round that was there before it.
C8_OneRoundInFlight ==
    \A r1, r2 \in RoundIds :
        (r1 < r2 /\ rounds[r2].is_ai_message /\ Executing(r1)) => ~Executing(r2)

\* C9 as stated: an agent-authored message examined while autonomous
\* conversation is allowed and auto-response is permitted gets its round
\* scheduled.
C9_AgentMessageGetsRound ==
    [][ (/\ ConsumerExamines
         /\ allow_ai_conversations
         /\ (infinite_loop \/ ai_conversation_turns < max_turns_cfg))
        => TrigPosted ]_vars

\* C9 amended: it gets its round scheduled exactly when, besides, no round is
\* flagged in flight.
C9_AgentMessageGetsRoundUnlessBusy ==
    [][ ConsumerExamines
        => (TrigPosted <=>
               /\ allow_ai_conversations
               /\ (infinite_loop \/ ai_conversation_turns < max_turns_cfg)
               /\ ~ai_processing) ]_vars

\* The callback of an agent-authored message is posted while infinite-loop
\* mode is on and the counter has reached the limit.
C9_Witness ==
    /\ infinite_loop
    /\ ai_conversation_turns >= max_turns_cfg
    /\ consumer_msg = NoMsg
    /\ after_queue # <<>>
    /\ after_queue[Len(after_queue)].op = "trig"

\* C10: every human round that has ended invoked each of its responders, and
\* every human message sent with robots active and the client configured has
\* its round.
C10_HumanRoundInvokesAll ==
    /\ \A r \in RoundIds :
          (~rounds[r].is_ai_message /\ rounds[r].pc = "done")
              => rounds[r].invoked = Len(rounds[r].responding)
    /\ (active_robots # <<>> /\ ai_client)
          => Cardinality({ r \in RoundIds : ~rounds[r].is_ai_message }) = sends

\* C11: the history, followed by the messages whose append is posted and by
\* those still in the queue, only ever grows at its end, by the message being
\* submitted: the consumer and the event loop move messages into the history
\* in the order of their submission.
C11_HistoryInSubmissionOrder ==
    [][ \/ Submitted' = Submitted
        \/ /\ Len(Submitted') = Len(Submitted) + 1
           /\ SubSeq(Submitted', 1, Len(Submitted)) = Submitted
           /\ message_queue' = Append(message_queue, Submitted'[Len(Submitted')])
      ]_vars

\* The history holds, after the seed messages, the human message, a reply and
\* a failure notice of two responders, while a further message is on its way.
C11_Witness ==
    /\ \E i, j, k \in 1..Len(chat_history) :
          /\ i < j /\ j < k
          /\ chat_history[i].role = "user"
          /\ chat_history[j].role = "assistant"
          /\ chat_history[k].kind = "fail"
    /\ Len(Submitted) > Len(chat_history)

\* The robots a round has invoked so far: the loop of line 780 takes the
\* responders in order.
InvokedSet(r) == { rounds[r].responding[k] : k \in 1..rounds[r].invoked }

\* The responders have been computed.
Selected(r) == rounds[r].pc \in {"loop", "call", "done"}

\* C12: a human round that has ended invoked exactly the targeted robot when
\* its message has a target, and exactly the robots with auto_respond_to_all
\* when it is public.
C12_HumanRoundInvokesByAddress ==
    \A r \in RoundIds :
        (~rounds[r].is_ai_message /\ rounds[r].pc = "done") =>
            InvokedSet(r) =
                IF rounds[r].last_message.target # NoTarget
                THEN {rounds[r].last_message.target}
                ELSE { n \in SeqToSet(active_robots) :
                          robot_config[n].auto_respond_to_all }

\* C13: in an autonomous round whose trigger is addressed to an active robot
\* other than its sender, that robot is among the responders.
C13_AddressedAgentResponds ==
    \A r \in RoundIds :
        (/\ rounds[r].is_ai_message
         /\ Selected(r)
         /\ rounds[r].last_message.target \in SeqToSet(active_robots)
         /\ rounds[r].last_message.target # rounds[r].last_message.name)
            => rounds[r].last_message.target \in SeqToSet(rounds[r].responding)

\* C14 as stated: in an autonomous round whose trigger is public, every
\* active robot other than the sender with auto_respond_to_all or
\* auto_respond_to_ai is among the responders.
C14_EitherFlagSuffices ==
    \A r \in RoundIds :
        (rounds[r].is_ai_message /\ Selected(r)
            /\ rounds[r].last_message.target = NoTarget) =>
            \A n \in SeqToSet(active_robots) \ {rounds[r].last_message.name} :
                (robot_config[n].auto_respond_to_all \/ robot_config[n].auto_respond_to_ai)
                    => n \in SeqToSet(rounds[r].responding)

\* C14 amended: such a robot is among the responders exactly when it has both
\* flags.
C14_BothFlagsNeeded ==
    \A r \in RoundIds :
        (rounds[r].is_ai_message /\ Selected(r)
            /\ rounds[r].last_message.target = NoTarget) =>
            \A n \in SeqToSet(active_robots) \ {rounds[r].last_message.name} :
                n \in SeqToSet(rounds[r].responding)
                    <=> (robot_config[n].auto_respond_to_all
                            /\ robot_config[n].auto_respond_to_ai)

\* An autonomous round with a public trigger has computed its responders, and
\* the only other robot, which has auto_respond_to_ai alone, is not among them.
C14_Witness ==
    \E r \in RoundIds :
        /\ rounds[r].is_ai_message /\ Selected(r)
        /\ rounds[r].last_message.target = NoTarget
        /\ \E n \in SeqToSet(active_robots) \ {rounds[r].last_message.name} :
              /\ robot_config[n].auto_respond_to_ai
              /\ ~robot_config[n].auto_respond_to_all
              /\ n \notin SeqToSet(rounds[r].responding)

\* C15: a failed invocation leaves exactly one message of its round for the
\* failing robot, the System notice naming it, and a round with a failed
\* invocation ends only after invoking every one of its responders.
C15_FailureDoesNotAbortRound ==
    \A k \in 1..Len(Submitted) :
        Submitted[k].kind = "fail" =>
            LET r == Submitted[k].rid
                robot == Submitted[k].about
            IN  /\ Cardinality({ j \in 1..Len(Submitted) :
                        /\ Submitted[j].rid = r
                        /\ robot \in {Submitted[j].about, Submitted[j].name} }) = 1
                /\ rounds[r].pc = "done"
                      => rounds[r].invoked = Len(rounds[r].responding)

\* The active names N for which the text starts with "@N" immediately
\* followed by whitespace.
Addressed ==
    { N \in SeqToSet(active_robots) :
        /\ Len(content) >= Len(N) + 2
        /\ content[1] = "@"
        /\ SubSeq(content, 2, Len(N) + 1) = N
        /\ IsSpace(content[Len(N) + 2]) }

\* C16: parse_mention returns such a name and the text after the token when
\* there is one, and otherwise no target and the text unchanged.
C16_ParseMentionByActiveName ==
    parsed # NoParse =>
        IF Addressed # {}
        THEN \E N \in Addressed :
                parsed = [content |-> SubSeq(content, Len(N) + 3, Len(content)),
                          target |-> N]
        ELSE parsed = [content |-> content, target |-> NoTargetText]

\* C17: a message is enqueued with a target only when that target is an active
\* robot at that moment, and the history takes its messages from the queue
\* unchanged.
C17_TargetActiveWhenAuthored ==
    [][ /\ Len(message_queue') = Len(message_queue) + 1
           => LET msg == message_queue'[Len(message_queue')]
              IN  msg.target # NoTarget => msg.target \in SeqToSet(active_robots)
        /\ Len(chat_history') = Len(chat_history) + 1
           => chat_history'[Len(chat_history')] \in
                 { cb.msg : cb \in SeqToSet(after_queue) } ]_vars

\* The history holds a message addressed to a robot that has been deleted
\* since, and a later message of a robot that carries no target.
C17_Witness ==
    \E j, k \in 1..Len(chat_history) :
        /\ j < k
        /\ chat_history[j].target # NoTarget
        /\ chat_history[j].target \notin SeqToSet(active_robots)
        /\ chat_history[k].role = "assistant"
        /\ chat_history[k].target = NoTarget

RECURSIVE IsSubseq(_, _)
\* s is t with some elements left out.
IsSubseq(s, t) ==
    IF s = <<>> THEN TRUE
    ELSE IF t = <<>> THEN FALSE
    ELSE IF Head(s) = Head(t) THEN IsSubseq(Tail(s), Tail(t))
    ELSE IsSubseq(s, Tail(t))

\* C18: every list built for a robot A holds each non-System message of the
\* history that is public, addressed to A or sent by A, and is the history
\* with some messages left out, in the original order.
C18_ViewKeepsOwnAndPublic ==
    \A b \in 1..Len(built) :
        LET A == built[b].lead.robot
            msgs == built[b].msgs
        IN  /\ \A k \in 1..Len(chat_history) :
                  (/\ chat_history[k].role # "system"
                   /\ \/ chat_history[k].target = NoTarget
                      \/ chat_history[k].target = A
                      \/ chat_history[k].name = A)
                     => chat_history[k] \in SeqToSet(msgs)
            /\ IsSubseq(msgs, chat_history)

\* A list was built for a robot from a history holding a message it sent to
\* the other robot, a public message and a message of the human to the other
\* robot.
C18_Witness ==
    \E b \in 1..Len(built) :
        LET A == built[b].lead.robot IN
        /\ \E k \in 1..Len(chat_history) :
              /\ chat_history[k].name = A
              /\ chat_history[k].target \notin {NoTarget, A}
        /\ \E k \in 1..Len(chat_history) :
              chat_history[k].role = "assistant" /\ chat_history[k].target = NoTarget
        /\ \E k \in 1..Len(chat_history) :
              /\ chat_history[k].role = "user"
              /\ chat_history[k].target \notin {NoTarget, A}
        /\ Len(built[b].msgs) = 2

\* C19: a System message of the history is left out of the list built for A
\* exactly when it is the persona reminder of another robot than A.
C19_OnlyOthersPersonaLeftOut ==
    \A b \in 1..Len(built) :
        LET A == built[b].lead.robot IN
        \A k \in 1..Len(chat_history) :
            chat_history[k].role = "system" =>
                (chat_history[k] \notin SeqToSet(built[b].msgs)
                    <=> (chat_history[k].kind = "prompt" /\ chat_history[k].about # A))

C30_SenderNeverResponds ==
    \A r \in RoundIds :
        Selected(r) => rounds[r].last_message.name \notin SeqToSet(rounds[r].responding)

\* An autonomous round has computed its responders for a message, public or
\* addressed to its own sender, of an active robot that has both policy flags.
C30_Witness ==
    \E r \in RoundIds :
        LET msg == rounds[r].last_message IN
        /\ rounds[r].is_ai_message /\ Selected(r)
        /\ msg.name \in SeqToSet(active_robots)
        /\ msg.target \in {NoTarget, msg.name}
        /\ robot_config[msg.name].auto_respond_to_ai
        /\ robot_config[msg.name].auto_respond_to_all

\* C27: when a round builds a responder's view, the message the round answers
\* is in the history already.
C27_TriggerInHistoryBeforeViews ==
    \A r \in RoundIds :
        rounds[r].pc = "call" => rounds[r].last_message \in SeqToSet(chat_history)

\* C28: the roster written into a responder's leading system message is the
\* registry the round selected its responders from: it names every responder
\* of the round.
C28_RosterFromRoundSnapshot ==
    \A r \in RoundIds :
        rounds[r].pc = "call"
            => SeqToSet(rounds[r].responding) \subseteq SeqToSet(rounds[r].view.lead.roster)

\* C29: a response that begins with the responder's own name and a colon
\* gives the message the mention parser gives for the text after that prefix:
\* '<own name>: @B text' with B active gives target B and content 'text'.
C29_SelfPrefixStrippedBeforeParsing ==
    parsed # NoParse =>
        LET name_prefix == rounds[1].responding[1] \o <<":">>
        IN  StartsWith(content, name_prefix) =>
                parsed = parse_mention_text(
                             LStrip(SubSeq(content, Len(name_prefix) + 1, Len(content))),
                             SeqToSet(active_robots))

\* The settings window was just saved and a box shown for it.
ConfigSaved ==
    dialogs' > dialogs /\ dialog'.by = "save_all_config"

\* C22: a save of the settings with a turn limit entered that is below 1 or
\* not an integer shows an error and leaves max_ai_conversation_turns as it
\* was, and the turn limit is at least 1 in every state.
C22_TurnLimitAtLeastOne ==
    /\ [](max_turns_cfg >= 1)
    /\ [][ (ConfigSaved /\ ~(dialog'.arg[2].is_int /\ dialog'.arg[2].val >= 1))
              => /\ dialog'.box \in {"timeout", "max_turns"}
                 /\ max_turns_cfg' = max_turns_cfg ]_vars

\* A save with a valid timeout and the turn limit 0 has just been rejected,
\* after an earlier save had been accepted.
C22_Witness ==
    /\ dialog = [by |-> "save_all_config", box |-> "max_turns",
                 arg |-> <<IntText(30), IntText(0)>>]
    /\ dialogs >= 2
    /\ Len(chat_history) > Len(SeedMessages(<<"Ann", "Bob">>, robot_config))

\* C23: a save of the settings that is rejected leaves every setting, the
\* active robots and the history as they were.
C23_RejectedSaveChangesNothing ==
    [][ (ConfigSaved /\ dialog'.box \in {"timeout", "max_turns"})
          => /\ main_config' = main_config
             /\ allow_ai_conversations' = allow_ai_conversations
             /\ max_turns_cfg' = max_turns_cfg
             /\ active_robots' = active_robots
             /\ chat_history' = chat_history ]_vars

\* The seed messages written at load time.
IsSeed(m) == m.role = "system" /\ m.kind \in {"prompt", "roster"}

\* C21: a clear that takes anything out of the history leaves exactly the
\* seed messages that were in it, in their order, and the turn counter at 0.
C21_ClearKeepsTheSeeds ==
    [][ Len(chat_history') < Len(chat_history)
          => /\ chat_history' = SelectSeq(chat_history, IsSeed)
             /\ ai_conversation_turns' = 0 ]_vars

\* The editor was just saved and a box shown for it.
RobotSaved ==
    dialogs' > dialogs /\ dialog'.by = "save_robot"

\* C24: a save of the editor whose name is empty, is the configured user
\* name, or is the name of a stored robot other than the one being edited
\* shows an error and leaves the robot files and the active robots as they
\* were.
C24_InvalidNameRejected ==
    [][ RobotSaved =>
          LET orig == dialog'.arg[1]
              name == dialog'.arg[2]
          IN  (\/ name = ""
               \/ name = main_config.user_name
               \/ name \in DOMAIN robot_dir /\ name # orig)
                 => /\ dialog'.box # "saved"
                    /\ robot_dir' = robot_dir
                    /\ active_robots' = active_robots ]_vars

\* C25: the active robots have distinct names, none of them is the configured
\* user name, and none of them is the name a human message was sent under.
C25_NamesDistinct ==
    /\ \A i, j \in 1..Len(active_robots) :
          active_robots[i] = active_robots[j] => i = j
    /\ main_config.user_name \notin SeqToSet(active_robots)
    /\ \A k \in 1..Len(Submitted) :
          Submitted[k].role = "user"
              => Submitted[k].name \notin SeqToSet(active_robots)

\* C26: a step that removes a robot file removes that of one robot, which is
\* then neither a default robot nor active; the other files, the other
\* default robots and the other active robots, their order and their flags
\* are as before.
C26_RemovalRetractsEverywhere ==
    [][ \A n \in DOMAIN robot_dir \ DOMAIN robot_dir' :
          LET Others(m) == m # n IN
          /\ DOMAIN robot_dir' = DOMAIN robot_dir \ {n}
          /\ \A m \in DOMAIN robot_dir' : robot_dir'[m] = robot_dir[m]
          /\ n \notin SeqToSet(main_config'.default_robots)
          /\ main_config'.default_robots = SelectSeq(main_config.default_robots, Others)
          /\ n \notin SeqToSet(active_robots')
          /\ active_robots' = SelectSeq(active_robots, Others)
          /\ \A m \in SeqToSet(active_robots') : robot_config'[m] = robot_config[m]
      ]_vars

\* Ann, a default robot at start-up, has been deleted: Bob alone is stored,
\* a default robot and active.
C26_Witness ==
    /\ DOMAIN robot_dir = {"Bob"}
    /\ main_config.default_robots = <<"Bob">>
    /\ active_robots = <<"Bob">>

\* A thread is started for an autonomous round.
AutonomousRoundStarted ==
    /\ Len(rounds') = Len(rounds) + 1
    /\ rounds'[Len(rounds')].is_ai_message

\* C31: a thread is started for an autonomous round only in a state where the
\* robots' conversations are allowed and infinite-loop mode is on or the turn
\* counter is below the limit.
C31_AutonomousRoundOnlyWhenAllowed ==
    [][ AutonomousRoundStarted
          => /\ allow_ai_conversations
             /\ (infinite_loop \/ ai_conversation_turns < max_turns_cfg) ]_vars

RECURSIVE AuthorsOf(_, _)
\* The robots the replies and failure notices of round r in a sequence of
\* messages are of, in the order of the messages.
AuthorsOf(msgs, r) ==
    IF msgs = <<>> THEN <<>>
    ELSE LET m == Head(msgs)
         IN  (IF m.rid = r /\ m.role = "assistant" THEN <<m.name>>
              ELSE IF m.rid = r /\ m.kind = "fail" THEN <<m.about>>
              ELSE <<>>) \o AuthorsOf(Tail(msgs), r)

\* C32: the responders of a round are in the order of the registry; a
\* completion call of the round is in flight only for the responder that
\* follows those whose calls have returned; and the replies and failure
\* notices of the round were enqueued in the order of its responders.
C32_RespondersInvokedInOrder ==
    \A r \in RoundIds :
        Selected(r) =>
            /\ IsSubseq(rounds[r].responding, active_robots)
            /\ rounds[r].pc = "call"
                  => /\ rounds[r].i = rounds[r].invoked + 1
                     /\ rounds[r].i <= Len(rounds[r].responding)
            /\ IsSubseq(AuthorsOf(Submitted, r),
                        SubSeq(rounds[r].responding, 1, rounds[r].invoked))

\* A round with two responders has ended: the first one's call failed, the
\* second one replied, and both messages are in the history.
C32_Witness ==
    \E r \in RoundIds :
        /\ rounds[r].pc = "done"
        /\ Len(rounds[r].responding) = 2
        /\ AuthorsOf(chat_history, r) = rounds[r].responding
        /\ \E j, k \in 1..Len(chat_history) :
              /\ j < k
              /\ chat_history[j].rid = r /\ chat_history[j].kind = "fail"
              /\ chat_history[k].rid = r /\ chat_history[k].role = "assistant"

\* C33: every message put on the queue is taken off it and appended to the
\* history in the end: the k-th message submitted, once submitted, becomes
\* the k-th message of the history.
C33_EveryMessageReachesHistory ==
    \A k \in 1..MaxSubmitted :
        (Len(Submitted) >= k) ~> (Len(chat_history) >= k)

\* The history holds the failure notice of a responder and, after it, the
\* reply of the next one, and nothing is on its way.
C33_Witness ==
    /\ message_queue = <<>> /\ after_queue = <<>> /\ consumer_msg = NoMsg
    /\ \E j, k \in 1..Len(chat_history) :
          /\ j < k
          /\ chat_history[j].kind = "fail"
          /\ chat_history[k].role = "assistant"

\* C34: ai_processing is true exactly while some round is executing.
C34_FlagWhileRoundExecutes ==
    ai_processing <=> (\E r \in RoundIds : Executing(r))

\* C35: the replies and failure notices enqueued by a round are one per
\* responder whose completion call has returned, in their order.
C35_OneMessagePerInvocation ==
    \A r \in RoundIds :
        Selected(r) =>
            AuthorsOf(Submitted, r) = SubSeq(rounds[r].responding, 1, rounds[r].invoked)

\* Nothing is left to do: the queue is empty, the consumer holds no message,
\* no callback is posted and every round thread has ended.
Quiescent ==
    /\ message_queue = <<>>
    /\ consumer_msg = NoMsg
    /\ after_queue = <<>>
    /\ \A r \in RoundIds : rounds[r].pc = "done"

\* C36: with infinite-loop mode off and finitely many human messages the
\* feedback loop between the robots is bounded: fewer than RoundsQuiet rounds
\* are ever started, and from some point on the queue is empty, no round is
\* executing and no further round is started.
C36_FeedbackLoopBounded ==
    /\ [](Len(rounds) < RoundsQuiet)
    /\ <>[]Quiescent

\* The robots have answered one another, a further round was refused at the
\* turn limit, and the program has come to rest.
C36_Witness ==
    /\ Quiescent
    /\ \E r \in RoundIds : rounds[r].is_ai_message /\ rounds[r].invoked > 0
    /\ \E k \in 1..Len(chat_history) : chat_history[k] = LimitNotice
    /\ ai_conversation_turns >= max_turns_cfg

\* Round r runs lines 768-778 in this step: it selects its responders.
SelectsResponders(r) ==
    /\ rounds[r].pc \in {"start", "incr"}
    /\ rounds'[r].pc = "loop"

\* C37: the responders a round selects are robots of the registry as it is
\* when the round selects them, none of them deleted (its file gone) or saved
\* as disabled before: a robot removed or disabled is not invoked in a round
\* that begins afterwards.
C37_RemovedAgentNotInvoked ==
    [][ \A r \in RoundIds :
          SelectsResponders(r) =>
              \A n \in SeqToSet(rounds'[r].responding) :
                  /\ n \in SeqToSet(active_robots)
                  /\ n \in DOMAIN robot_dir
                  /\ robot_dir[n].enabled ]_vars

\* Ann was disabled or deleted before the human's public message was given
\* its round: the round has invoked Bob alone, although Ann's flags make her
\* answer every public message.
C37_Witness ==
    \E r \in RoundIds :
        /\ rounds[r].last_message.role = "user"
        /\ rounds[r].responding = <<"Bob">>
        /\ rounds[r].invoked = 1
        /\ "Ann" \notin SeqToSet(active_robots)
        /\ robot_config["Ann"].auto_respond_to_all

\* C38: after clear_chat no message made for a trigger older than the clear
\* enters the history. The history is filled in submission order and a clear
\* takes every human and robot message out, so a reply or notice of a round
\* that is in the history has the message its round answers before it:
\* otherwise that message was cleared away and the round's message entered
\* the cleared history.
C38_NothingOlderThanTheClear ==
    \A k \in 1..Len(chat_history) :
        chat_history[k].rid > 0 =>
            \E j \in 1..(k - 1) :
                chat_history[j] = rounds[chat_history[k].rid].last_message

====
